---- MODULE Spec2Model ----
(***************************************************************************)
(* Model of the background-removal application:                           *)
(*   src/src/utils/backgroundRemoval.ts  the model lifecycle wrapper       *)
(*   src/src/App.tsx                     the interaction layer             *)
(*   src/src/components/ConfigPanel.tsx  the settings panel                *)
(*                                                                         *)
(* JavaScript runs every handler to completion, so one action is one      *)
(* synchronous stretch of code: a handler up to its first await, or the   *)
(* continuation that runs once an awaited promise has settled.  The       *)
(* continuation of a caller that awaits one of the wrapper's promises is  *)
(* a microtask: it is queued in mq and runs before any further event.     *)
(*                                                                         *)
(* Two specifications share the state:                                    *)
(*   Spec     the application: mount, settings panel, uploads, discard    *)
(*   ApiSpec  the wrapper module driven through its exported functions    *)
(*            by an arbitrary caller                                      *)
(* Pure presentation state (dragOver, configPanelOpen) is left out.       *)
(***************************************************************************)
EXTENDS Naturals, Sequences, FiniteSets

\* ------------------------------------------------------------------ bounds
\* calls of the wrapper made by the application / by the arbitrary caller
MaxCalls == 3
MaxApiCalls == 2
MaxConfigChanges == 2

\* ----------------------------------------------------------- configuration
\* the options the settings panel offers; for model, format and output type
\* two of the panel's three options, for quality two positions of the slider
Models == {"isnet", "isnet_fp16"}
Devices == {"cpu", "gpu"}
Formats == {"image/png", "image/jpeg"}
OutputTypes == {"foreground", "mask"}
\* output.quality in tenths (the slider moves in steps of 0.1)
Qualities == {5, 8}

defaultConfig ==
    [debug |-> FALSE, device |-> "cpu", model |-> "isnet_fp16",
     output |-> [format |-> "image/png", quality |-> 8, type |-> "foreground"]]

\* the part of a configuration that loadModel hands to preload
PreloadArgs(cfg) == [model |-> cfg.model, debug |-> cfg.debug, device |-> cfg.device]

\* ConfigPanel: one control changes one field of the rendered config
updateConfig(cfg) ==
    {[cfg EXCEPT !.device = d] : d \in Devices}
        \cup {[cfg EXCEPT !.model = m] : m \in Models}
        \cup {[cfg EXCEPT !.debug = ~cfg.debug]}

updateOutputConfig(cfg) ==
    {[cfg EXCEPT !.output.format = f] : f \in Formats}
        \cup {[cfg EXCEPT !.output.type = ty] : ty \in OutputTypes}
        \cup {[cfg EXCEPT !.output.quality = q] : q \in Qualities}

\* ------------------------------------------------------------------ values
None == "none"
NoFile == [name |-> "", type |-> <<>>, size |-> 0]
\* processedImage = null
NoImage == [original |-> <<0, "none">>, processed |-> <<0, "none">>, filename |-> ""]
\* what preload and removeBackground can reject with
Errors == {"E1", "E2"}
Outcomes == {"ok"} \cup Errors
\* new Error('...') thrown by processImageBackgroundRemoval
GenericError == "background removal failed, please retry"

MaxFileSize == 10 * 1024 * 1024
Files ==
    {[name |-> "a.png", type |-> <<"image", "png">>, size |-> 1024],
     [name |-> "b.txt", type |-> <<"text", "plain">>, size |-> 1024],
     [name |-> "c.png", type |-> <<"image", "png">>, size |-> MaxFileSize + 1]}
ApiFile == [name |-> "a.png", type |-> <<"image", "png">>, size |-> 1024]

VARIABLES
    isModelLoaded,     \* backgroundRemoval.ts: the module-level readiness flag
    tasks,             \* every call of loadModel / processImageBackgroundRemoval made so far
    mq,                \* microtask queue: tasks whose awaiting caller is ready to continue
    log,               \* console.error output, in order
    config,            \* App state
    modelLoaded,       \* App state
    loadingProgress,   \* App state
    isProcessing,      \* App state
    processedImage,    \* App state
    error,             \* App state
    mounted,           \* whether the mount effect has run
    liveUrls,          \* object URLs created and not revoked
    callsSinceReset,   \* history: the calls made since the last resetModel
    loadedSinceReset,  \* history: preload arguments whose preload succeeded since the last reset
    configChanges,     \* history: number of handleConfigChange calls so far
    last               \* history: the step just taken

vars == <<isModelLoaded, tasks, mq, log, config, modelLoaded, loadingProgress,
          isProcessing, processedImage, error, mounted, liveUrls, callsSinceReset,
          loadedSinceReset, configChanges, last>>

uiVars == <<config, modelLoaded, loadingProgress, isProcessing, processedImage,
            error, mounted, liveUrls, configChanges>>

Step(op, t, arg) == [op |-> op, task |-> t, flagBefore |-> isModelLoaded, arg |-> arg]

Init ==
    /\ isModelLoaded = FALSE
    /\ tasks = <<>>
    /\ mq = <<>>
    /\ log = <<>>
    /\ config = defaultConfig
    /\ modelLoaded = FALSE
    /\ loadingProgress = 0
    /\ isProcessing = FALSE
    /\ processedImage = NoImage
    /\ error = None
    /\ mounted = FALSE
    /\ liveUrls = {}
    /\ callsSinceReset = {}
    /\ loadedSinceReset = {}
    /\ configChanges = 0
    /\ last = [op |-> "init", task |-> 0, flagBefore |-> FALSE, arg |-> None]

\* ------------------------------------------------- backgroundRemoval.ts
\* a loadModel that calls preload whatever the flag says
LoadModelAlwaysPreloads(flag) == TRUE

\* loadModel: `if (!isModelLoaded)` decides whether preload is called
LoadModelCallsPreload(flag) == ~flag

\* a loadModel that forgets to set the flag
LoadModelOnSettleForgets(flag, outcome) == flag

\* a loadModel that sets the flag whether or not the preload succeeded
LoadModelOnSettleEager(flag, outcome) == TRUE

\* loadModel after `await preload(...)`: the flag once the preload has settled
LoadModelOnSettle(flag, outcome) == IF outcome = "ok" THEN TRUE ELSE flag

\* loadModel's catch block: `throw error`
LoadModelThrows(err) == err

\* a processImageBackgroundRemoval without the lazy load
ProcessSkipsLoad(flag) == FALSE

\* processImageBackgroundRemoval: `if (!isModelLoaded)` decides the lazy load
ProcessNeedsLoad(flag) == ~flag

\* a catch block that rethrows what it caught
ProcessRethrows(err) == err

\* processImageBackgroundRemoval's catch block: `throw new Error(...)`
ProcessThrows(err) == GenericError

isModelReady == isModelLoaded

\* a resetModel that leaves the flag as it is
ResetModelFlagKept == isModelLoaded

\* resetModel: the value it assigns to the flag
ResetModelFlag == FALSE

FlagName(flag) == IF flag THEN "ready" ELSE "notReady"

\* The record of one call.  pc: "preload" (awaiting preload), "loadReturned"
\* (the lazy loadModel has settled, processImage not yet resumed), "infer"
\* (awaiting removeBackground), "returned" (the call's promise has settled,
\* the caller not yet resumed), "done".
NewTask(flag, kind, origin, cfg, file) ==
    [kind |-> kind, origin |-> origin, cfg |-> cfg, file |-> file,
     pc |-> "returned", preloadCalls |-> 0, preloadArg |-> PreloadArgs(cfg),
     inferCalls |-> 0, flagAtInfer |-> "na", loadRet |-> None, ret |-> None,
     flagAtCall |-> flag]

\* loadModel(cfg) up to its first await, called with the flag at `flag`
LoadModelCall(flag, origin, cfg) ==
    IF LoadModelCallsPreload(flag)
    THEN [NewTask(flag, "load", origin, cfg, NoFile) EXCEPT
            !.pc = "preload", !.preloadCalls = 1]
    ELSE [NewTask(flag, "load", origin, cfg, NoFile) EXCEPT
            !.pc = "returned", !.loadRet = "ok", !.ret = "ok"]

\* processImageBackgroundRemoval(file, cfg) up to its first await
ProcessImageCall(flag, origin, cfg, file) ==
    IF ProcessNeedsLoad(flag)
    THEN IF LoadModelCallsPreload(flag)
         THEN [NewTask(flag, "process", origin, cfg, file) EXCEPT
                 !.pc = "preload", !.preloadCalls = 1]
         ELSE [NewTask(flag, "process", origin, cfg, file) EXCEPT
                 !.pc = "loadReturned", !.loadRet = "ok"]
    ELSE [NewTask(flag, "process", origin, cfg, file) EXCEPT
            !.pc = "infer", !.inferCalls = 1, !.flagAtInfer = FlagName(flag),
            !.loadRet = "skip"]

\* a call that returned without awaiting anything external resumes its caller
\* in a microtask
Enqueue(q, t, task) == IF task.pc \in {"returned", "loadReturned"} THEN Append(q, t) ELSE q

\* the external preload settles; loadModel resumes after its await
PreloadSettle(t, outcome) ==
    /\ mq = <<>>
    /\ t \in DOMAIN tasks
    /\ tasks[t].pc = "preload"
    /\ isModelLoaded' = LoadModelOnSettle(isModelLoaded, outcome)
    /\ log' = IF outcome \in Errors
              THEN Append(log, <<"Failed to preload model:", outcome>>)
              ELSE log
    /\ tasks' = [tasks EXCEPT ![t] =
                   IF tasks[t].kind = "load"
                   THEN [@ EXCEPT !.pc = "returned",
                                  !.loadRet = IF outcome = "ok" THEN "ok" ELSE LoadModelThrows(outcome),
                                  !.ret = IF outcome = "ok" THEN "ok" ELSE LoadModelThrows(outcome)]
                   ELSE [@ EXCEPT !.pc = "loadReturned",
                                  !.loadRet = IF outcome = "ok" THEN "ok" ELSE LoadModelThrows(outcome)]]
    /\ mq' = <<t>>
    /\ loadedSinceReset' = IF outcome = "ok"
                           THEN loadedSinceReset \cup {tasks[t].preloadArg}
                           ELSE loadedSinceReset
    /\ last' = Step("preloadSettled", t, outcome)
    /\ UNCHANGED <<uiVars, callsSinceReset>>

\* processImageBackgroundRemoval resumes after `await loadModel(config)`
ProcessImageResume ==
    /\ mq # <<>>
    /\ LET t == Head(mq) IN
        /\ tasks[t].pc = "loadReturned"
        /\ IF tasks[t].loadRet = "ok"
           THEN /\ tasks' = [tasks EXCEPT ![t] =
                               [@ EXCEPT !.pc = "infer", !.inferCalls = 1,
                                         !.flagAtInfer = FlagName(isModelLoaded)]]
                /\ mq' = Tail(mq)
                /\ log' = log
           ELSE /\ tasks' = [tasks EXCEPT ![t] =
                               [@ EXCEPT !.pc = "returned",
                                         !.ret = ProcessThrows(tasks[t].loadRet)]]
                /\ mq' = Append(Tail(mq), t)
                /\ log' = Append(log, <<"Background removal failed:", tasks[t].loadRet>>)
        /\ last' = Step("processResumed", t, tasks[t].loadRet)
    /\ UNCHANGED <<isModelLoaded, uiVars, callsSinceReset, loadedSinceReset>>

\* the external removeBackground settles; processImageBackgroundRemoval returns
\* the blob or runs its catch block
InferSettle(t, outcome) ==
    /\ mq = <<>>
    /\ t \in DOMAIN tasks
    /\ tasks[t].pc = "infer"
    /\ tasks' = [tasks EXCEPT ![t] =
                   [@ EXCEPT !.pc = "returned",
                             !.ret = IF outcome = "ok" THEN "ok" ELSE ProcessThrows(outcome)]]
    /\ log' = IF outcome \in Errors
              THEN Append(log, <<"Background removal failed:", outcome>>)
              ELSE log
    /\ mq' = <<t>>
    /\ last' = Step("inferSettled", t, outcome)
    /\ UNCHANGED <<isModelLoaded, uiVars, callsSinceReset, loadedSinceReset>>

\* ------------------------------------------------- the wrapper's callers
ApiConfigs == {defaultConfig, [defaultConfig EXCEPT !.device = "gpu"]}

ApiLoadModel(cfg) ==
    /\ mq = <<>>
    /\ Len(tasks) < MaxApiCalls
    /\ LET t == Len(tasks) + 1
           task == LoadModelCall(isModelLoaded, "api", cfg) IN
        /\ tasks' = Append(tasks, task)
        /\ mq' = Enqueue(mq, t, task)
        /\ callsSinceReset' = callsSinceReset \cup {t}
        /\ last' = Step("loadModel", t, None)
    /\ UNCHANGED <<isModelLoaded, log, uiVars, loadedSinceReset>>

ApiProcessImage(cfg) ==
    /\ mq = <<>>
    /\ Len(tasks) < MaxApiCalls
    /\ LET t == Len(tasks) + 1
           task == ProcessImageCall(isModelLoaded, "api", cfg, ApiFile) IN
        /\ tasks' = Append(tasks, task)
        /\ mq' = Enqueue(mq, t, task)
        /\ callsSinceReset' = callsSinceReset \cup {t}
        /\ last' = Step("processImage", t, None)
    /\ UNCHANGED <<isModelLoaded, log, uiVars, loadedSinceReset>>

ApiResetModel ==
    /\ mq = <<>>
    /\ isModelLoaded' = ResetModelFlag
    /\ callsSinceReset' = {}
    /\ loadedSinceReset' = {}
    /\ last' = Step("resetModel", 0, None)
    /\ UNCHANGED <<tasks, mq, log, uiVars>>

\* the caller's continuation after the awaited call
ApiContinue ==
    /\ mq # <<>>
    /\ LET t == Head(mq) IN
        /\ tasks[t].pc = "returned"
        /\ tasks[t].origin = "api"
        /\ tasks' = [tasks EXCEPT ![t] = [@ EXCEPT !.pc = "done"]]
        /\ mq' = Tail(mq)
        /\ last' = Step("continued", t, tasks[t].ret)
    /\ UNCHANGED <<isModelLoaded, log, uiVars, callsSinceReset, loadedSinceReset>>

ApiNext ==
    \/ \E cfg \in ApiConfigs : ApiLoadModel(cfg)
    \/ \E cfg \in ApiConfigs : ApiProcessImage(cfg)
    \/ ApiResetModel
    \/ \E t \in DOMAIN tasks, o \in Outcomes : PreloadSettle(t, o)
    \/ \E t \in DOMAIN tasks, o \in Outcomes : InferSettle(t, o)
    \/ ProcessImageResume
    \/ ApiContinue

ApiSpec == Init /\ [][ApiNext]_vars

\* ------------------------------------------------------------- App.tsx
\* user-facing messages set with setError
MsgNotImage == "please choose a valid image file"
MsgTooLarge == "image files may not exceed 10MB"
MsgNotReady == "the AI model has not finished loading"
MsgLoadFailed == "AI model failed to load, refresh the page"
MsgReloadFailed == "AI model failed to load, check the configuration or refresh the page"

\* a comparison that leaves out the debug flag
ModelConfigChangedIgnoresDebug(newConfig, cfg) ==
    \/ newConfig.model # cfg.model
    \/ newConfig.device # cfg.device

\* handleConfigChange: whether the model-related configuration changed
ModelConfigChanged(newConfig, cfg) ==
    \/ newConfig.model # cfg.model
    \/ newConfig.device # cfg.device
    \/ newConfig.debug # cfg.debug

\* an upload area that stays rendered while an image is being processed
UploadAreaIgnoresProcessing == processedImage = NoImage /\ modelLoaded

\* the upload area (drop zone and file input) is rendered
UploadAreaRendered == processedImage = NoImage /\ ~isProcessing /\ modelLoaded

\* handleFileSelect: file.type.startsWith('image/')
IsImage(file) == Len(file.type) > 0 /\ file.type[1] = "image"

\* handleFileSelect: the message of the early return taken, or None
FileSelectRejection(file) ==
    IF ~IsImage(file) THEN MsgNotImage
    ELSE IF file.size > MaxFileSize THEN MsgTooLarge
    ELSE IF ~isModelReady THEN MsgNotReady
    ELSE None

\* the mount effect: initModel up to `await loadModel(config)`
InitModel ==
    /\ ~mounted
    /\ mq = <<>>
    /\ Len(tasks) < MaxCalls
    /\ mounted' = TRUE
    /\ loadingProgress' = 20
    /\ LET t == Len(tasks) + 1
           task == LoadModelCall(isModelLoaded, "init", config) IN
        /\ tasks' = Append(tasks, task)
        /\ mq' = Enqueue(mq, t, task)
        /\ callsSinceReset' = callsSinceReset \cup {t}
        /\ last' = Step("initModel", t, None)
    /\ UNCHANGED <<isModelLoaded, log, config, modelLoaded, isProcessing,
                   processedImage, error, liveUrls, loadedSinceReset, configChanges>>

\* initModel after `await loadModel(config)`
InitModelContinue ==
    /\ mq # <<>>
    /\ LET t == Head(mq) IN
        /\ tasks[t].pc = "returned"
        /\ tasks[t].origin = "init"
        /\ tasks' = [tasks EXCEPT ![t] = [@ EXCEPT !.pc = "done"]]
        /\ mq' = Tail(mq)
        /\ IF tasks[t].ret = "ok"
           THEN /\ loadingProgress' = 100
                /\ modelLoaded' = TRUE
                /\ UNCHANGED <<error, log>>
           ELSE /\ log' = Append(log, <<"model load failed:", tasks[t].ret>>)
                /\ error' = MsgLoadFailed
                /\ modelLoaded' = FALSE
                /\ UNCHANGED loadingProgress
        /\ last' = Step("continued", t, tasks[t].ret)
    /\ UNCHANGED <<isModelLoaded, config, isProcessing, processedImage, mounted,
                   liveUrls, callsSinceReset, loadedSinceReset, configChanges>>

\* handleConfigChange up to `await loadModel(newConfig)`, or whole when the
\* model-related configuration is unchanged
handleConfigChange(newConfig) ==
    /\ mounted
    /\ mq = <<>>
    /\ configChanges < MaxConfigChanges
    /\ configChanges' = configChanges + 1
    /\ config' = newConfig
    /\ IF ModelConfigChanged(newConfig, config)
       THEN /\ Len(tasks) < MaxCalls
            /\ modelLoaded' = FALSE
            /\ loadingProgress' = 20
            /\ isModelLoaded' = ResetModelFlag
            /\ loadedSinceReset' = {}
            /\ LET t == Len(tasks) + 1
                   task == LoadModelCall(ResetModelFlag, "config", newConfig) IN
                /\ tasks' = Append(tasks, task)
                /\ mq' = Enqueue(mq, t, task)
                /\ callsSinceReset' = {t}
                /\ last' = Step("handleConfigChange", t, "reload")
       ELSE /\ last' = Step("handleConfigChange", 0, "keep")
            /\ UNCHANGED <<modelLoaded, loadingProgress, isModelLoaded,
                           loadedSinceReset, tasks, mq, callsSinceReset>>
    /\ UNCHANGED <<log, isProcessing, processedImage, error, mounted, liveUrls>>

\* handleConfigChange after `await loadModel(newConfig)`
handleConfigChangeContinue ==
    /\ mq # <<>>
    /\ LET t == Head(mq) IN
        /\ tasks[t].pc = "returned"
        /\ tasks[t].origin = "config"
        /\ tasks' = [tasks EXCEPT ![t] = [@ EXCEPT !.pc = "done"]]
        /\ mq' = Tail(mq)
        /\ IF tasks[t].ret = "ok"
           THEN /\ loadingProgress' = 100
                /\ modelLoaded' = TRUE
                /\ error' = None
                /\ UNCHANGED log
           ELSE /\ log' = Append(log, <<"model reload failed:", tasks[t].ret>>)
                /\ error' = MsgReloadFailed
                /\ modelLoaded' = FALSE
                /\ UNCHANGED loadingProgress
        /\ last' = Step("continued", t, tasks[t].ret)
    /\ UNCHANGED <<isModelLoaded, config, isProcessing, processedImage, mounted,
                   liveUrls, callsSinceReset, loadedSinceReset, configChanges>>

\* handleFileSelect up to `await processImageBackgroundRemoval(file, config)`,
\* reached from handleDrop and handleFileChange of the upload area
handleFileSelect(file) ==
    /\ mounted
    /\ mq = <<>>
    /\ UploadAreaRendered
    /\ IF FileSelectRejection(file) # None
       THEN /\ error' = FileSelectRejection(file)
            /\ last' = Step("handleFileSelect", 0, "rejected")
            /\ UNCHANGED <<isProcessing, liveUrls, tasks, mq, callsSinceReset>>
       ELSE /\ Len(tasks) < MaxCalls
            /\ error' = None
            /\ isProcessing' = TRUE
            /\ LET t == Len(tasks) + 1
                   task == ProcessImageCall(isModelLoaded, "upload", config, file) IN
                /\ liveUrls' = liveUrls \cup {<<t, "original">>}
                /\ tasks' = Append(tasks, task)
                /\ mq' = Enqueue(mq, t, task)
                /\ callsSinceReset' = callsSinceReset \cup {t}
                /\ last' = Step("handleFileSelect", t, "accepted")
    /\ UNCHANGED <<isModelLoaded, log, config, modelLoaded, loadingProgress,
                   processedImage, mounted, loadedSinceReset, configChanges>>

\* handleFileSelect after `await processImageBackgroundRemoval(file, config)`
handleFileSelectContinue ==
    /\ mq # <<>>
    /\ LET t == Head(mq) IN
        /\ tasks[t].pc = "returned"
        /\ tasks[t].origin = "upload"
        /\ tasks' = [tasks EXCEPT ![t] = [@ EXCEPT !.pc = "done"]]
        /\ mq' = Tail(mq)
        /\ IF tasks[t].ret = "ok"
           THEN /\ liveUrls' = liveUrls \cup {<<t, "processed">>}
                /\ processedImage' = [original |-> <<t, "original">>,
                                      processed |-> <<t, "processed">>,
                                      filename |-> tasks[t].file.name]
                /\ UNCHANGED <<error, log>>
           ELSE /\ error' = tasks[t].ret
                /\ log' = Append(log, <<"Background removal error:", tasks[t].ret>>)
                /\ UNCHANGED <<liveUrls, processedImage>>
        /\ isProcessing' = FALSE
        /\ last' = Step("continued", t, tasks[t].ret)
    /\ UNCHANGED <<isModelLoaded, config, modelLoaded, loadingProgress, mounted,
                   callsSinceReset, loadedSinceReset, configChanges>>

\* reset: the "process again" button of the result view
reset ==
    /\ mounted
    /\ mq = <<>>
    /\ processedImage # NoImage
    /\ liveUrls' = liveUrls \ {processedImage.original, processedImage.processed}
    /\ processedImage' = NoImage
    /\ error' = None
    /\ last' = Step("reset", 0, None)
    /\ UNCHANGED <<isModelLoaded, tasks, mq, log, config, modelLoaded,
                   loadingProgress, isProcessing, mounted, callsSinceReset,
                   loadedSinceReset, configChanges>>

\* The application never reaches ProcessImageResume: handleFileSelect calls
\* processImageBackgroundRemoval only right after isModelReady() was true.
Next ==
    \/ InitModel
    \/ InitModelContinue
    \/ \E newConfig \in updateConfig(config) \cup updateOutputConfig(config) :
           handleConfigChange(newConfig)
    \/ handleConfigChangeContinue
    \/ \E file \in Files : handleFileSelect(file)
    \/ handleFileSelectContinue
    \/ reset
    \/ \E t \in DOMAIN tasks, o \in Outcomes : PreloadSettle(t, o)
    \/ \E t \in DOMAIN tasks, o \in Outcomes : InferSettle(t, o)

Spec == Init /\ [][Next]_vars

\* ---------------------------------------------------------------- claims
Returned(t) == tasks[t].pc \in {"returned", "done"}
LoadCalls == {t \in DOMAIN tasks : tasks[t].kind = "load"}
ProcessCalls == {t \in DOMAIN tasks : tasks[t].kind = "process"}
InferencesInFlight == {t \in DOMAIN tasks : tasks[t].pc = "infer"}
LastLogged(entry) == Len(log) > 0 /\ log[Len(log)] = entry

\* C1 (as claimed): the readiness flag is true only if a preload whose
\* {model, device, debug} equal those of the current configuration has
\* succeeded since the last reset.
C1_ReadyOnlyForCurrentConfig ==
    isModelLoaded => PreloadArgs(config) \in loadedSinceReset

\* C2: when loadModel returns successfully (its preload succeeded, or it
\* found the flag already true), isModelReady() is true at that point.
C2_SuccessfulLoadIsReady ==
    (/\ last.op \in {"loadModel", "preloadSettled"}
     /\ tasks[last.task].loadRet = "ok")
        => isModelReady

\* a preload for a non-default configuration has just succeeded with the
\* flag false before
C2_Witness ==
    /\ last.op = "preloadSettled"
    /\ tasks[last.task].loadRet = "ok"
    /\ ~last.flagBefore
    /\ tasks[last.task].cfg # defaultConfig

\* C3: right after resetModel(), isModelReady() is false, whatever the
\* state before.
C3_ResetClearsReadiness ==
    last.op = "resetModel" => ~isModelReady

\* resetModel has just run with the flag true and an inference outstanding
C3_Witness ==
    /\ last.op = "resetModel"
    /\ last.flagBefore
    /\ InferencesInFlight # {}

\* C4: loadModel called while the flag is true invokes preload zero times,
\* leaves the flag true and returns without error, also for a configuration
\* other than the loaded one.
C4_LoadWhenReadyIsNoOp ==
    (last.op = "loadModel" /\ last.flagBefore)
        => /\ isModelLoaded
           /\ tasks[last.task].preloadCalls = 0
           /\ tasks[last.task].pc = "returned"
           /\ tasks[last.task].ret = "ok"

\* loadModel has just been called with the flag true and a configuration
\* that was not the one loaded
C4_Witness ==
    /\ last.op = "loadModel"
    /\ last.flagBefore
    /\ tasks[last.task].preloadArg \notin loadedSinceReset

\* C5 (as claimed): two loadModel calls with the same configuration and no
\* resetModel between them, the first made with the flag false and not
\* failed, invoke preload exactly once in total, also when the second
\* starts before the first one's preload has completed.
C5_SameConfigLoadsPreloadOnce ==
    \A t1, t2 \in callsSinceReset \cap LoadCalls :
        (/\ t1 < t2
         /\ tasks[t1].cfg = tasks[t2].cfg
         /\ ~tasks[t1].flagAtCall
         /\ tasks[t1].loadRet \notin Errors)
            => tasks[t1].preloadCalls + tasks[t2].preloadCalls = 1

\* C6: when the preload called by loadModel fails, loadModel does not set
\* the flag (a flag that was false stays false), reports the error to the
\* console and raises to its caller the error the preload raised.
C6_FailedPreloadLeavesFlagAndError ==
    (last.op = "preloadSettled" /\ last.arg \in Errors)
        => /\ isModelLoaded = last.flagBefore
           /\ tasks[last.task].loadRet = last.arg
           /\ LastLogged(<<"Failed to preload model:", last.arg>>)

\* a preload has just failed with E2 while the flag was false
C6_Witness ==
    /\ last.op = "preloadSettled"
    /\ last.arg = "E2"
    /\ ~last.flagBefore
    /\ ~isModelReady

\* C7: when removeBackground fails, processImageBackgroundRemoval raises the
\* one generic error, which is none of the original errors; the original
\* error goes to the console only, and the flag is left as it was.
C7_InferenceFailureIsGeneric ==
    (last.op = "inferSettled" /\ last.arg \in Errors)
        => /\ tasks[last.task].ret = GenericError
           /\ tasks[last.task].ret # last.arg
           /\ LastLogged(<<"Background removal failed:", last.arg>>)
           /\ isModelLoaded = last.flagBefore

\* removeBackground has just failed with E2 while the flag was true
C7_Witness ==
    /\ last.op = "inferSettled"
    /\ last.arg = "E2"
    /\ last.flagBefore

\* C8 (as claimed): every load failure reaches the caller as the original
\* error, also from the lazy load inside processImageBackgroundRemoval, and
\* only inference failures reach it as the generic error.
C8_LoadFailureReachesCallerUntranslated ==
    \A t \in DOMAIN tasks :
        Returned(t) =>
            /\ tasks[t].loadRet \in Errors => tasks[t].ret = tasks[t].loadRet
            /\ tasks[t].ret = GenericError => tasks[t].inferCalls = 1

\* C9: a processImageBackgroundRemoval call made with the flag false calls
\* preload exactly once, before any inference; removeBackground is invoked
\* only with the flag true and not at all when the load failed; a call made
\* with the flag true calls no preload.
C9_LoadOnceBeforeInference ==
    \A t \in ProcessCalls :
        /\ ~tasks[t].flagAtCall => tasks[t].preloadCalls = 1
        /\ tasks[t].flagAtCall =>
              tasks[t].preloadCalls = 0 /\ tasks[t].loadRet = "skip"
        /\ tasks[t].inferCalls = 1 =>
              tasks[t].flagAtInfer = "ready" /\ tasks[t].loadRet \in {"ok", "skip"}
        /\ tasks[t].loadRet \in Errors => tasks[t].inferCalls = 0
        /\ tasks[t].pc \in {"preload", "loadReturned"} => tasks[t].inferCalls = 0

\* one call made with the flag false has loaded and then inferred, another
\* has had its load fail and has returned
C9_Witness ==
    \E t1, t2 \in ProcessCalls :
        /\ ~tasks[t1].flagAtCall
        /\ tasks[t1].inferCalls = 1
        /\ ~tasks[t2].flagAtCall
        /\ tasks[t2].loadRet \in Errors
        /\ Returned(t2)

\* C10: in the application at most one removeBackground call is in flight;
\* isProcessing is true for as long as one is, and an upload starts one only
\* when the UI considers the model loaded and the wrapper reports ready.
C10_OneInferenceInFlight ==
    /\ Cardinality(InferencesInFlight) <= 1
    /\ InferencesInFlight # {} => isProcessing
    /\ (last.op = "handleFileSelect" /\ last.arg = "accepted")
          => modelLoaded /\ last.flagBefore

\* a second upload is being processed after an earlier one has finished
C10_Witness ==
    \E t1, t2 \in ProcessCalls :
        /\ tasks[t1].pc = "done"
        /\ tasks[t2].pc = "infer"

LoadsOutstanding == {t \in DOMAIN tasks : tasks[t].pc = "preload"}

\* C11 (as claimed): the interface serializes operations: at most one load
\* or inference call is outstanding at any time, also across configuration
\* changes made during the initial load, a reload or an inference.
C11_OperationsSerialized ==
    Cardinality(LoadsOutstanding \cup InferencesInFlight) <= 1

\* C12: a handleConfigChange step resets the flag and starts a load, whose
\* preload is called after the reset with the new configuration's model,
\* debug and device, exactly when the new configuration differs from the
\* current one in model, device or debug; any other change leaves the flag
\* and the calls made so far as they were.
C12_ReloadExactlyOnModelChange ==
    [][configChanges' # configChanges =>
          IF PreloadArgs(config') # PreloadArgs(config)
          THEN /\ ~isModelLoaded'
               /\ Len(tasks') = Len(tasks) + 1
               /\ \A t \in DOMAIN tasks : tasks'[t] = tasks[t]
               /\ tasks'[Len(tasks')].pc = "preload"
               /\ tasks'[Len(tasks')].preloadCalls = 1
               /\ ~tasks'[Len(tasks')].flagAtCall
               /\ tasks'[Len(tasks')].preloadArg = PreloadArgs(config')
          ELSE /\ isModelLoaded' = isModelLoaded
               /\ tasks' = tasks]_vars

\* a change of the debug flag alone has just reset a flag that was true and
\* started a reload
C12_Witness ==
    /\ last.op = "handleConfigChange"
    /\ last.arg = "reload"
    /\ last.flagBefore
    /\ config.debug
    /\ config.model = defaultConfig.model
    /\ config.device = defaultConfig.device
    /\ tasks[last.task].pc = "preload"

\* C13 (as claimed): once no upload is being processed, every object URL
\* created and not revoked is held by the displayed processed result.
C13_NoUnreleasedUrl ==
    ~isProcessing =>
        liveUrls \subseteq {processedImage.original, processedImage.processed}

\* C14 (as claimed): whenever no load is outstanding and no continuation is
\* pending, the UI's modelLoaded equals the wrapper's readiness flag.
C14_UiAgreesWithWrapper ==
    (LoadsOutstanding = {} /\ mq = <<>>) => modelLoaded = isModelLoaded

====
